---- MODULE Spec2Model ----
(***************************************************************************)
(* Model of CryptoTradeBot (src/main.py): the in-memory ledger             *)
(* (usdt_balance, btc_balance), the queue of open operations, the          *)
(* simulated balance file, the exchange account, and the run loop with its *)
(* five strategies.                                                        *)
(*                                                                         *)
(* Units.  Decimal values are modelled as exact integers: crypto amounts   *)
(* in lots of TRADE_AMOUNT, prices in fiat per lot, fiat balances in fiat. *)
(* Fractions (PROFIT_THRESHOLD, DROP_THRESHOLD, a position's target) are   *)
(* kept multiplied by Scale, so 0.005 is 5 and a target of 10.05 is 10050. *)
(* Every value of the model has far fewer than 15 significant digits, the  *)
(* range in which Decimal (prec 18) arithmetic is exact and in which       *)
(* Decimal -> str -> Decimal and Decimal -> float -> str -> Decimal give   *)
(* back the same number.                                                   *)
(***************************************************************************)
EXTENDS Integers, Sequences, FiniteSets, TLC

VARIABLES
    simulated,      \* SIMULATED flag                       (main.py:24)
    strategy,       \* STRATEGY string                      (main.py:40)
    budget_limit,   \* BUDGET_LIMIT                         (main.py:42)
    usdt_balance,   \* in-memory fiat balance               (main.py:32)
    btc_balance,    \* in-memory crypto balance             (main.py:32)
    operations,     \* queue of open positions              (main.py:21)
    fileUsdt,       \* "usdt" of fake_balances.json         (main.py:94)
    fileBtc,        \* "btc" of fake_balances.json          (main.py:94)
    acctUsdt,       \* free fiat on the exchange account    (main.py:175)
    acctBtc,        \* free crypto on the exchange account  (main.py:176)
    pc,             \* position of the process: constructor, loop steps, stopped
    stopCause,      \* which handler of run() ended the loop (main.py:452-455)
    orders,         \* orders placed since the last inter-tick wait (main.py:228,271)
    calls,          \* the buy()/sell() calls of the last step, each with the
                    \* ledger and queue before and after it
    ticks,          \* completed loop iterations
    snapshot        \* the market data the strategy of this tick has read
                    \* (main.py:280,299,337,356,379), until the status report

vars == <<simulated, strategy, budget_limit, usdt_balance, btc_balance,
          operations, fileUsdt, fileBtc, acctUsdt, acctBtc, pc, stopCause,
          orders, calls, ticks, snapshot>>

----------------------------------------------------------------------------
(* Bounds of the model *)

MaxTicks == 2

\* calls made in a run of SpecApi
MaxCalls == 3

\* closes and period of the inputs of SpecRsi
MaxCloses == 4

MaxPeriod == 3

\* loop iterations in a run of SpecSim
MaxSimTicks == 4

(* Program parameters (defaults of the environment variables) *)

Scale == 1000
profit_threshold == 5
drop_threshold == 20
trade_amount_btc == 1
BreakoutLimit == 21
SmaPeriod == 30
RsiPeriod == 14
RsiExtra == 5
buy_level == 30
sell_level == 70

\* getcontext().prec: significant digits every Decimal operation rounds to
prec == 18

NoTarget == 0 - 1

Strategies == {"basic", "breakout", "sma", "rsi", "dca", "grid"}

\* what fetch_current_price can return: 0 (error or zero quote) or a quote
Prices == {0, 9, 10, 11}

\* closes an exchange candle can have
Closes == {9, 10, 11}

BudgetLimits == {0, 5, 25}

InitFiat == {0, 20}

InitCrypto == {0, 1}

----------------------------------------------------------------------------
(* Positions *)

\* a buy() that stores the entry price as the target
TargetWithoutProfit(price) == price * Scale

\* buy(): target = price * (1 + profit_threshold), kept multiplied by Scale
TargetOf(price) == price * (Scale + profit_threshold)

NewOperation(price) ==
    [price |-> price, amount |-> trade_amount_btc, target |-> TargetOf(price)]

\* evaluate_operations(): operation.get("target", operation.get("price"))
OpTarget(op) == IF op.target = NoTarget THEN op.price * Scale ELSE op.target

\* a removal that always takes the head of the queue
RemoveHead(q, i) == Tail(q)

\* del self.operations[i]   (i is 0-based as in the source)
RemoveAt(q, i) ==
    [k \in 1..(Len(q) - 1) |-> IF k <= i THEN q[k] ELSE q[k + 1]]

\* operations.json as the constructor may find it
LoadedQueues ==
    { <<>>,
      << [price |-> 10, amount |-> 1, target |-> TargetOf(10)] >>,
      << [price |-> 10, amount |-> 2, target |-> NoTarget] >> }

----------------------------------------------------------------------------
(* The state the ledger operations work on, as one record *)

Mem ==
    [usdt |-> usdt_balance, btc |-> btc_balance, ops |-> operations,
     fileUsdt |-> fileUsdt, fileBtc |-> fileBtc,
     acctUsdt |-> acctUsdt, acctBtc |-> acctBtc,
     orders |-> orders, calls |-> calls]

\* what a call of buy() or sell() can change in memory
View(s) == [usdt |-> s.usdt, btc |-> s.btc, ops |-> s.ops]

\* the record of one call: its arguments, the memory before and after it,
\* whether it logged "Order Placed", and whether its external call failed
Called(s0, s1, op, index, price, ioOk) ==
    [s1 EXCEPT !.calls = Append(@, [op |-> op, index |-> index, price |-> price,
                                    before |-> View(s0), after |-> View(s1),
                                    placed |-> s1.orders > s0.orders,
                                    ioOk |-> ioOk])]

\* a simulated trade that never reaches fake_balances.json
update_fake_balances_unsaved(s, operation, amount_usdt, amount_btc, ioOk) == s

\* update_fake_balances(): re-reads the file and writes file value -/+ delta;
\* when the read or the write fails it logs and leaves the file as it was
update_fake_balances(s, operation, amount_usdt, amount_btc, ioOk) ==
    IF ~ioOk THEN s
    ELSE IF operation = "buy"
         THEN [s EXCEPT !.fileUsdt = @ - amount_usdt, !.fileBtc = @ + amount_btc]
         ELSE [s EXCEPT !.fileUsdt = @ + amount_usdt, !.fileBtc = @ - amount_btc]

\* the price a market order fills at: the quote the bot has just read, or,
\* when the bot's read failed and it holds 0, the market's own quote
FillPrice(price) == IF price > 0 THEN price ELSE 10

\* a bot that takes every order for filled, whatever create_order raised
OrderTakenForFilled(s, side, qty, price, ioOk) == TRUE

\* client.create_order(side, MARKET, quantity): the exchange fills the order
\* when the account covers it, and raises otherwise
OrderAccepted(s, side, qty, price, ioOk) ==
    /\ ioOk
    /\ IF side = "BUY" THEN s.acctUsdt >= qty * FillPrice(price)
                       ELSE s.acctBtc >= qty

create_order(s, side, qty, price) ==
    IF side = "BUY"
    THEN [s EXCEPT !.acctUsdt = @ - qty * FillPrice(price), !.acctBtc = @ + qty]
    ELSE [s EXCEPT !.acctUsdt = @ + qty * FillPrice(price), !.acctBtc = @ - qty]

\* a buy() without the balance test
HasFundsUnchecked(s, cost) == TRUE

\* buy(), line 201
HasFunds(s, cost) == s.usdt >= cost

\* buy(), line 202: the branch that places the order
BudgetGate(s, cost) == budget_limit > 0 /\ (s.usdt - cost) < budget_limit

\* buy(), lines 218-228
AppendOperation(s, price) ==
    [s EXCEPT !.ops = Append(@, NewOperation(price)), !.orders = @ + 1]

\* buy(price); ioOk is the outcome of the one external call it makes
\* (the balance file in simulated mode, the order in real mode)
buyBody(s, price, ioOk) ==
    LET cost == price * trade_amount_btc
    IN  IF HasFunds(s, cost)
        THEN IF BudgetGate(s, cost)
             THEN IF simulated
                  THEN AppendOperation(
                         update_fake_balances(
                           [s EXCEPT !.usdt = @ - cost,
                                     !.btc = @ + trade_amount_btc],
                           "buy", cost, trade_amount_btc, ioOk),
                         price)
                  ELSE IF OrderAccepted(s, "BUY", trade_amount_btc, price, ioOk)
                       THEN AppendOperation(
                              create_order(s, "BUY", trade_amount_btc, price),
                              price)
                       ELSE s
             ELSE s
        ELSE s

buy(s, price, ioOk) == Called(s, buyBody(s, price, ioOk), "buy", 0 - 1, price, ioOk)

\* sell(operation_index, price); operation_index is 0-based
sellBody(s, operation_index, price, ioOk) ==
    IF operation_index < 0 \/ operation_index >= Len(s.ops)
    THEN s
    ELSE LET amount == s.ops[operation_index + 1].amount
             proceeds == amount * price
             removed(t) == [t EXCEPT !.ops = RemoveAt(@, operation_index),
                                     !.orders = @ + 1]
         IN  IF s.btc < amount
             THEN s
             ELSE IF simulated
                  THEN removed(
                         update_fake_balances(
                           [s EXCEPT !.btc = @ - amount, !.usdt = @ + proceeds],
                           "sell", proceeds, amount, ioOk))
                  ELSE IF OrderAccepted(s, "SELL", amount, price, ioOk)
                       THEN removed(create_order(s, "SELL", amount, price))
                       ELSE s

sell(s, operation_index, price, ioOk) ==
    Called(s, sellBody(s, operation_index, price, ioOk),
           "sell", operation_index, price, ioOk)

----------------------------------------------------------------------------
(* KeyboardInterrupt.  It is no Exception, so the handlers of buy() and     *)
(* sell() (lines 233, 272) let it pass and it reaches run(), line 452, from *)
(* whatever statement was executing.                                        *)

\* where inside buy()/sell() the interrupt arrives: after the first balance
\* assignment, after the second, after update_fake_balances / create_order
InterruptPoints == {"first", "second", "external"}

\* buy() cut short before operations.append (line 226)
buyInterrupted(s, price, ioOk, point) ==
    LET cost == price * trade_amount_btc
    IN  IF HasFunds(s, cost) /\ BudgetGate(s, cost)
        THEN IF simulated
             THEN IF point = "first"
                  THEN [s EXCEPT !.usdt = @ - cost]
                  ELSE IF point = "second"
                  THEN [s EXCEPT !.usdt = @ - cost, !.btc = @ + trade_amount_btc]
                  ELSE update_fake_balances(
                         [s EXCEPT !.usdt = @ - cost,
                                   !.btc = @ + trade_amount_btc],
                         "buy", cost, trade_amount_btc, ioOk)
             ELSE IF point = "external"
                     /\ OrderAccepted(s, "BUY", trade_amount_btc, price, ioOk)
                  THEN create_order(s, "BUY", trade_amount_btc, price)
                  ELSE s
        ELSE s

\* sell() cut short before del self.operations[operation_index] (line 269)
sellInterrupted(s, operation_index, price, ioOk, point) ==
    IF operation_index < 0 \/ operation_index >= Len(s.ops)
    THEN s
    ELSE LET amount == s.ops[operation_index + 1].amount
             proceeds == amount * price
         IN  IF s.btc < amount
             THEN s
             ELSE IF simulated
                  THEN IF point = "first"
                       THEN [s EXCEPT !.btc = @ - amount]
                       ELSE IF point = "second"
                       THEN [s EXCEPT !.btc = @ - amount, !.usdt = @ + proceeds]
                       ELSE update_fake_balances(
                              [s EXCEPT !.btc = @ - amount, !.usdt = @ + proceeds],
                              "sell", proceeds, amount, ioOk)
                  ELSE IF point = "external"
                          /\ OrderAccepted(s, "SELL", amount, price, ioOk)
                       THEN create_order(s, "SELL", amount, price)
                       ELSE s

----------------------------------------------------------------------------
(* Market data *)

\* a candle history of n closes: flat at base, then prev, then cur
Series(n, base, prev, cur) ==
    [i \in 1..n |-> IF i = n THEN cur ELSE IF i = n - 1 THEN prev ELSE base]

\* get_candles(limit): [] on an error, else at most limit closes, oldest first
get_candles(limit) ==
    {<<>>} \cup {Series(n, b, p, c) : n \in {1, limit}, b \in Closes,
                                      p \in Closes, c \in Closes}

\* a maximum that looks at the first element only
MaxOfFirst(q) == q[1]

RECURSIVE MaxOf(_)
MaxOf(q) ==
    IF Len(q) = 1 THEN q[1]
    ELSE LET m == MaxOf(Tail(q)) IN IF q[1] > m THEN q[1] ELSE m

RECURSIVE MinOf(_)
MinOf(q) ==
    IF Len(q) = 1 THEN q[1]
    ELSE LET m == MinOf(Tail(q)) IN IF q[1] < m THEN q[1] ELSE m

RECURSIVE SumOf(_)
SumOf(q) == IF q = <<>> THEN 0 ELSE q[1] + SumOf(Tail(q))

AllButLast(q) == SubSeq(q, 1, Len(q) - 1)

----------------------------------------------------------------------------
(* Strategies *)

\* evaluate_operations(), line 388: current_price >= target
SellHit(op, current_price) == current_price * Scale >= OpTarget(op)

\* evaluate_operations(), line 395: current_price <= buy_price * (1 - drop)
DropHit(op, current_price) ==
    current_price * Scale <= op.price * (Scale - drop_threshold)

\* evaluate_operations(): one pass over a copy of the queue, oldest first;
\* the first position that meets either test is acted on and the loop breaks
evaluate_operations(s, current_price, ioOk) ==
    IF current_price = 0 THEN s
    ELSE LET hits == {i \in 1..Len(s.ops) :
                        \/ SellHit(s.ops[i], current_price)
                        \/ DropHit(s.ops[i], current_price)}
         IN  IF hits = {} THEN s
             ELSE LET i == CHOOSE k \in hits : \A j \in hits : k <= j
                  IN  IF SellHit(s.ops[i], current_price)
                      THEN sell(s, i - 1, current_price, ioOk)
                      ELSE buy(s, current_price, ioOk)

\* evaluate_operations() when the interrupt arrives inside the call it makes
evaluate_operations_interrupted(s, current_price, ioOk, point) ==
    IF current_price = 0 THEN s
    ELSE LET hits == {i \in 1..Len(s.ops) :
                        \/ SellHit(s.ops[i], current_price)
                        \/ DropHit(s.ops[i], current_price)}
         IN  IF hits = {} THEN s
             ELSE LET i == CHOOSE k \in hits : \A j \in hits : k <= j
                  IN  IF SellHit(s.ops[i], current_price)
                      THEN Called(s, sellInterrupted(s, i - 1, current_price,
                                                     ioOk, point),
                                  "sell", i - 1, current_price, ioOk)
                      ELSE Called(s, buyInterrupted(s, current_price, ioOk, point),
                                  "buy", 0 - 1, current_price, ioOk)

\* a breakout that forces the sale without looking at the queue
strategy_breakout_unguarded(s, closes, io1, io2) ==
    IF Len(closes) < 2 THEN s
    ELSE LET current == closes[Len(closes)]
             previous == AllButLast(closes)
             s1 == IF current > MaxOf(previous) THEN buy(s, current, io1) ELSE s
         IN  IF current < MinOf(previous)
             THEN sell(s1, 0, current, io2)
             ELSE s1

strategy_breakout(s, closes, io1, io2) ==
    IF Len(closes) < 2 THEN s
    ELSE LET current == closes[Len(closes)]
             previous == AllButLast(closes)
             top == MaxOf(previous)
             bottom == MinOf(previous)
             s1 == IF current > top THEN buy(s, current, io1) ELSE s
         IN  IF current < bottom /\ s1.ops # <<>>
             THEN sell(s1, 0, current, io2)
             ELSE s1

\* sma = sum(closes[:-1]) / len(closes[:-1]); x <= sma is x * len <= sum
strategy_sma(s, closes, period, io1, io2) ==
    IF Len(closes) < period + 1 THEN s
    ELSE LET total == SumOf(AllButLast(closes))
             n == Len(closes) - 1
             current == closes[Len(closes)]
             prev == closes[Len(closes) - 1]
             s1 == IF prev * n <= total /\ current * n > total /\ s.usdt > 0
                   THEN buy(s, current, io1) ELSE s
         IN  IF prev * n >= total /\ current * n < total /\ s1.ops # <<>>
             THEN sell(s1, 0, current, io2)
             ELSE s1

\* the delta closes[-i] - closes[-i-1]
Delta(closes, i) == closes[Len(closes) + 1 - i] - closes[Len(closes) - i]

RECURSIVE Gains(_, _)
Gains(closes, k) ==
    IF k = 0 THEN 0
    ELSE Gains(closes, k - 1)
         + (IF Delta(closes, k) > 0 THEN Delta(closes, k) ELSE 0)

RECURSIVE Losses(_, _)
Losses(closes, k) ==
    IF k = 0 THEN 0
    ELSE Losses(closes, k - 1)
         + (IF Delta(closes, k) > 0 THEN 0 ELSE 0 - Delta(closes, k))

(* Decimal arithmetic of calculate_rsi() at the context precision.  A      *)
(* natural number is the sequence of its decimal digits, most significant *)
(* first, <<>> being 0; a Decimal is coef * 10^exp, never negative here.   *)
(* The operations are functions, so that each is applied to values.       *)

NatDigits == Seq(0..9)

Decimals == [coef : NatDigits, exp : Int]

Digits[n \in Nat] == IF n = 0 THEN <<>> ELSE Append(Digits[n \div 10], n % 10)

Zeros(n) == [i \in 1..n |-> 0]

\* a without its leading zeros
StripZeros[a \in NatDigits] ==
    IF \A i \in 1..Len(a) : a[i] = 0 THEN <<>>
    ELSE SubSeq(a, CHOOSE i \in 1..Len(a) :
                       a[i] # 0 /\ \A j \in 1..(i - 1) : a[j] = 0,
                Len(a))

NatLess[a \in NatDigits, b \in NatDigits] ==
    IF Len(a) # Len(b) THEN Len(a) < Len(b)
    ELSE \E i \in 1..Len(a) : a[i] < b[i] /\ \A j \in 1..(i - 1) : a[j] = b[j]

Pad(a, n) == Zeros(n - Len(a)) \o a

\* x + y for x and y of one length: position i takes a carry when, to its
\* right, a column sums to 10 or more behind columns that all sum to 9
AddColumns[x \in NatDigits, y \in NatDigits] ==
    LET carry(i) == \E j \in (i + 1)..Len(x) :
                       /\ x[j] + y[j] >= 10
                       /\ \A k \in (i + 1)..(j - 1) : x[k] + y[k] = 9
    IN  StripZeros[[i \in 1..Len(x) |->
                      (x[i] + y[i] + (IF carry(i) THEN 1 ELSE 0)) % 10]]

NatAdd[a \in NatDigits, b \in NatDigits] ==
    LET n == 1 + (IF Len(a) > Len(b) THEN Len(a) ELSE Len(b))
    IN  AddColumns[Pad(a, n), Pad(b, n)]

\* x - y for x >= y of one length: position i lends when, to its right, a
\* column is short behind columns that are all even
SubColumns[x \in NatDigits, y \in NatDigits] ==
    LET borrow(i) == \E j \in (i + 1)..Len(x) :
                        /\ x[j] < y[j]
                        /\ \A k \in (i + 1)..(j - 1) : x[k] = y[k]
    IN  StripZeros[[i \in 1..Len(x) |->
                      (x[i] - y[i] - (IF borrow(i) THEN 1 ELSE 0) + 10) % 10]]

\* a - b for a >= b
NatSub[a \in NatDigits, b \in NatDigits] == SubColumns[a, Pad(b, Len(a))]

\* the multiples 1 * b .. k * b
NextMultiple[m \in Seq(NatDigits), b \in NatDigits] ==
    Append(m, NatAdd[m[Len(m)], b])

Multiples[b \in NatDigits, k \in 1..9] ==
    IF k = 1 THEN <<b>> ELSE NextMultiple[Multiples[b, k - 1], b]

\* d * b taken from r; m holds the multiples of b
Take[r \in NatDigits, m \in Seq(NatDigits), d \in 0..9] ==
    [d |-> d, r |-> IF d = 0 THEN r ELSE NatSub[r, m[d]]]

\* the largest d with d * b <= r, and what is left of r
Fit[r \in NatDigits, m \in Seq(NatDigits)] ==
    Take[r, m, Cardinality({k \in 1..9 : ~NatLess[r, m[k]]})]

Fits == [d : 0..9, r : NatDigits]

DivState == [q : NatDigits, r : NatDigits]

\* one more quotient digit, leading zeros left out
Push[q \in NatDigits, f \in Fits] ==
    [q |-> IF q = <<>> /\ f.d = 0 THEN <<>> ELSE Append(q, f.d), r |-> f.r]

\* long division: the digits of a from the i-th on are brought down one by
\* one to what is left, st.r; st.q collects the quotient digits
LongDiv[a \in NatDigits, m \in Seq(NatDigits), i \in Nat, st \in DivState] ==
    IF i > Len(a) THEN st
    ELSE LongDiv[a, m, i + 1,
                 Push[st.q, Fit[StripZeros[Append(st.r, a[i])], m]]]

DecOf[n \in Nat] == [coef |-> Digits[n], exp |-> 0]

\* ROUND_HALF_EVEN of coef * 10^exp to prec digits; inexact: digits beyond
\* coef are not all zero
DecRound[coef \in NatDigits, exp \in Int, inexact \in BOOLEAN] ==
    IF Len(coef) <= prec THEN [coef |-> coef, exp |-> exp]
    ELSE LET beyond == inexact \/ \E i \in (prec + 2)..Len(coef) : coef[i] # 0
             up == \/ coef[prec + 1] > 5
                   \/ coef[prec + 1] = 5 /\ (beyond \/ coef[prec] % 2 = 1)
         IN  [coef |-> IF up THEN NatAdd[SubSeq(coef, 1, prec), <<1>>]
                       ELSE SubSeq(coef, 1, prec),
              exp |-> exp + Len(coef) - prec]

\* the coefficients of a and b at their common exponent
Aligned[a \in Decimals, b \in Decimals] ==
    LET e == IF a.exp < b.exp THEN a.exp ELSE b.exp
    IN  [a |-> StripZeros[a.coef \o Zeros(a.exp - e)],
         b |-> StripZeros[b.coef \o Zeros(b.exp - e)],
         exp |-> e]

AlignedPairs == [a : NatDigits, b : NatDigits, exp : Int]

AddAligned[x \in AlignedPairs] == DecRound[NatAdd[x.a, x.b], x.exp, FALSE]

SubAligned[x \in AlignedPairs] == DecRound[NatSub[x.a, x.b], x.exp, FALSE]

DecAdd[a \in Decimals, b \in Decimals] == AddAligned[Aligned[a, b]]

\* a - b for a >= b
DecSub[a \in Decimals, b \in Decimals] == SubAligned[Aligned[a, b]]

RoundQuotient[d \in DivState, exp \in Int] == DecRound[d.q, exp, d.r # <<>>]

\* a / b for b > 0: prec + 1 or prec + 2 digits of the quotient, rounded
DecDiv[a \in Decimals, b \in Decimals] ==
    LET shift == Len(b.coef) - Len(a.coef) + prec + 1
    IN  RoundQuotient[LongDiv[a.coef \o Zeros(shift), Multiples[b.coef, 9], 1,
                              [q |-> <<>>, r |-> <<>>]],
                      a.exp - b.exp - shift]

LessAligned[x \in AlignedPairs] == NatLess[x.a, x.b]

DecLess[a \in Decimals, b \in Decimals] == LessAligned[Aligned[a, b]]

EqAligned[x \in AlignedPairs] == x.a = x.b

DecEq[a \in Decimals, b \in Decimals] == EqAligned[Aligned[a, b]]

\* calculate_rsi(): None, or the RSI as a Decimal
calculate_rsi(closes, period) ==
    IF Len(closes) < period + 1
    THEN [none |-> TRUE, value |-> DecOf[0]]
    ELSE LET gains == DecOf[Gains(closes, period)]
             losses == DecOf[Losses(closes, period)]
             avg_gain == DecDiv[gains, DecOf[period]]
             avg_loss == DecDiv[losses, DecOf[period]]
         IN  IF avg_loss.coef = <<>>
             THEN [none |-> FALSE, value |-> DecOf[100]]
             ELSE LET rs == DecDiv[avg_gain, avg_loss]
                  IN  [none |-> FALSE,
                       value |-> DecSub[DecOf[100],
                                        DecDiv[DecOf[100], DecAdd[DecOf[1], rs]]]]

\* the sequences over S of length up to n
RECURSIVE SeqsUpTo(_, _)
SeqsUpTo(S, n) ==
    IF n = 0 THEN {<<>>}
    ELSE LET shorter == SeqsUpTo(S, n - 1)
         IN  shorter \cup {Append(q, x) : q \in {r \in shorter : Len(r) = n - 1},
                                          x \in S}

\* calculate_rsi() on every series and period the model reads, computed once
RsiInputs ==
    {x : x \in {<<c, RsiPeriod>> : c \in get_candles(RsiPeriod + RsiExtra)}
             \cup {<<c, p>> : c \in SeqsUpTo(Closes, MaxCloses),
                              p \in 2..MaxPeriod}}

RsiTable == [x \in RsiInputs |-> calculate_rsi(x[1], x[2])]

strategy_rsi(s, closes, period, io1, io2) ==
    IF closes = <<>> THEN s
    ELSE LET rsi == RsiTable[<<closes, period>>]
             current == closes[Len(closes)]
         IN  IF rsi.none THEN s
             ELSE LET s1 == IF ~DecLess[DecOf[buy_level], rsi.value]
                            THEN buy(s, current, io1) ELSE s
                  IN  IF ~DecLess[rsi.value, DecOf[sell_level]] /\ s1.ops # <<>>
                      THEN sell(s1, 0, current, io2)
                      ELSE s1

strategy_dca(s, current_price, io1, io2) ==
    IF current_price = 0 THEN s
    ELSE IF s.ops = <<>> THEN buy(s, current_price, io1)
    ELSE LET last_price == s.ops[Len(s.ops)].price
             s1 == IF current_price * Scale <= last_price * (Scale - drop_threshold)
                   THEN buy(s, current_price, io1) ELSE s
         IN  IF /\ current_price * Scale >= last_price * (Scale + profit_threshold)
                /\ s1.ops # <<>>
             THEN sell(s1, 0, current_price, io2)
             ELSE s1

----------------------------------------------------------------------------
(* The process: constructor, then the loop of run() *)

config == <<simulated, strategy, budget_limit>>

\* what a strategy has read: a quote (fetch_current_price) or closes
\* (get_candles) with the period it evaluates them over
NoSnapshot == [price |-> 0, closes |-> <<>>, period |-> 0]

Quote(price) == [price |-> price, closes |-> <<>>, period |-> 0]

Candles(closes, period) == [price |-> 0, closes |-> closes, period |-> period]

Commit(s) ==
    /\ usdt_balance' = s.usdt
    /\ btc_balance' = s.btc
    /\ operations' = s.ops
    /\ fileUsdt' = s.fileUsdt
    /\ fileBtc' = s.fileBtc
    /\ acctUsdt' = s.acctUsdt
    /\ acctBtc' = s.acctBtc
    /\ orders' = s.orders
    /\ calls' = s.calls

\* the state after __init__ has loaded operations.json and the balances
Init ==
    /\ simulated \in BOOLEAN
    /\ strategy \in Strategies
    /\ budget_limit \in BudgetLimits
    /\ operations \in LoadedQueues
    /\ usdt_balance \in InitFiat
    /\ btc_balance \in InitCrypto
    /\ fileUsdt = (IF simulated THEN usdt_balance ELSE 0)
    /\ fileBtc = (IF simulated THEN btc_balance ELSE 0)
    /\ acctUsdt = (IF simulated THEN 0 ELSE usdt_balance)
    /\ acctBtc = (IF simulated THEN 0 ELSE btc_balance)
    /\ pc = "init"
    /\ stopCause = "none"
    /\ orders = 0
    /\ calls = <<>>
    /\ ticks = 0
    /\ snapshot = NoSnapshot

\* __init__, lines 51-52, and initialize_operations()
InitializeOperations ==
    /\ pc = "init"
    /\ \E current \in Prices, ioOk \in BOOLEAN :
          Commit(IF operations = <<>> /\ current > 0
                 THEN buy(Mem, current, ioOk) ELSE Mem)
    /\ pc' = "fetch"
    /\ UNCHANGED <<config, stopCause, ticks, snapshot>>

\* run(), line 439: the balances are re-read from the file (simulated) or
\* the account (real); a failed read gives 0, 0
FetchBalances ==
    /\ pc = "fetch"
    /\ ticks < MaxTicks
    /\ \E readOk \in BOOLEAN :
          /\ usdt_balance' = (IF ~readOk THEN 0
                              ELSE IF simulated THEN fileUsdt ELSE acctUsdt)
          /\ btc_balance' = (IF ~readOk THEN 0
                             ELSE IF simulated THEN fileBtc ELSE acctBtc)
    /\ orders' = 0
    /\ calls' = <<>>
    /\ pc' = "strategy"
    /\ UNCHANGED <<config, operations, fileUsdt, fileBtc, acctUsdt, acctBtc,
                   stopCause, ticks, snapshot>>

\* run_strategy(): "basic", and any unknown name, run evaluate_operations()
RunBasic ==
    /\ pc = "strategy"
    /\ strategy \notin {"breakout", "sma", "rsi", "dca"}
    /\ \E current_price \in Prices, ioOk \in BOOLEAN :
          /\ Commit(evaluate_operations(Mem, current_price, ioOk))
          /\ snapshot' = Quote(current_price)
    /\ pc' = "report"
    /\ UNCHANGED <<config, stopCause, ticks>>

RunBreakout ==
    /\ pc = "strategy"
    /\ strategy = "breakout"
    /\ \E closes \in get_candles(BreakoutLimit), io1 \in BOOLEAN, io2 \in BOOLEAN :
          /\ Commit(strategy_breakout(Mem, closes, io1, io2))
          /\ snapshot' = Candles(closes, 0)
    /\ pc' = "report"
    /\ UNCHANGED <<config, stopCause, ticks>>

RunSma ==
    /\ pc = "strategy"
    /\ strategy = "sma"
    /\ \E closes \in get_candles(SmaPeriod + 1), io1 \in BOOLEAN, io2 \in BOOLEAN :
          /\ Commit(strategy_sma(Mem, closes, SmaPeriod, io1, io2))
          /\ snapshot' = Candles(closes, SmaPeriod)
    /\ pc' = "report"
    /\ UNCHANGED <<config, stopCause, ticks>>

RunRsi ==
    /\ pc = "strategy"
    /\ strategy = "rsi"
    /\ \E closes \in get_candles(RsiPeriod + RsiExtra), io1 \in BOOLEAN,
          io2 \in BOOLEAN :
          /\ Commit(strategy_rsi(Mem, closes, RsiPeriod, io1, io2))
          /\ snapshot' = Candles(closes, RsiPeriod)
    /\ pc' = "report"
    /\ UNCHANGED <<config, stopCause, ticks>>

RunDca ==
    /\ pc = "strategy"
    /\ strategy = "dca"
    /\ \E current_price \in Prices, io1 \in BOOLEAN, io2 \in BOOLEAN :
          /\ Commit(strategy_dca(Mem, current_price, io1, io2))
          /\ snapshot' = Quote(current_price)
    /\ pc' = "report"
    /\ UNCHANGED <<config, stopCause, ticks>>

\* run(), lines 443-445: the status lines.  log() prints outside any try
\* (line 81); an exception of print reaches the handler of line 454, which
\* logs and lets run() return
Report ==
    /\ pc = "report"
    /\ \E raised \in BOOLEAN :
          IF raised
          THEN pc' = "stopped" /\ stopCause' = "error"
          ELSE pc' = "seed" /\ stopCause' = stopCause
    /\ snapshot' = NoSnapshot
    /\ UNCHANGED <<config, usdt_balance, btc_balance, operations, fileUsdt,
                   fileBtc, acctUsdt, acctBtc, orders, calls, ticks>>

\* run(), lines 448-449: buy(fetch_current_price()) when the queue is empty
SeedBuy ==
    /\ pc = "seed"
    /\ \E price \in Prices, ioOk \in BOOLEAN :
          Commit(IF Len(operations) = 0 /\ strategy \in {"basic", "dca"}
                 THEN buy(Mem, price, ioOk) ELSE Mem)
    /\ pc' = "sleep"
    /\ UNCHANGED <<config, stopCause, ticks, snapshot>>

\* run(), line 451: time.sleep, then the next iteration
Sleep ==
    /\ pc = "sleep"
    /\ pc' = "fetch"
    /\ ticks' = ticks + 1
    /\ UNCHANGED <<config, usdt_balance, btc_balance, operations, fileUsdt,
                   fileBtc, acctUsdt, acctBtc, orders, calls, stopCause,
                   snapshot>>

\* run(), line 452: KeyboardInterrupt between two statements of the loop
\* (most often during time.sleep)
Interrupt ==
    /\ pc \in {"fetch", "strategy", "report", "seed", "sleep"}
    /\ pc' = "stopped"
    /\ stopCause' = "interrupt"
    /\ UNCHANGED <<config, usdt_balance, btc_balance, operations, fileUsdt,
                   fileBtc, acctUsdt, acctBtc, orders, calls, ticks, snapshot>>

\* KeyboardInterrupt inside the sell() or buy() that evaluate_operations() calls
InterruptInEvaluate ==
    /\ pc = "strategy"
    /\ strategy \notin {"breakout", "sma", "rsi", "dca"}
    /\ \E current_price \in Prices, ioOk \in BOOLEAN, point \in InterruptPoints :
          /\ Commit(evaluate_operations_interrupted(Mem, current_price, ioOk, point))
          /\ snapshot' = Quote(current_price)
    /\ pc' = "stopped"
    /\ stopCause' = "interrupt"
    /\ UNCHANGED <<config, ticks>>

\* KeyboardInterrupt inside the buy() of run(), line 449
InterruptInSeedBuy ==
    /\ pc = "seed"
    /\ Len(operations) = 0
    /\ strategy \in {"basic", "dca"}
    /\ \E price \in Prices, ioOk \in BOOLEAN, point \in InterruptPoints :
          Commit(Called(Mem, buyInterrupted(Mem, price, ioOk, point),
                        "buy", 0 - 1, price, ioOk))
    /\ pc' = "stopped"
    /\ stopCause' = "interrupt"
    /\ UNCHANGED <<config, ticks, snapshot>>

Next ==
    \/ InitializeOperations
    \/ FetchBalances
    \/ RunBasic
    \/ RunBreakout
    \/ RunSma
    \/ RunRsi
    \/ RunDca
    \/ Report
    \/ SeedBuy
    \/ Sleep
    \/ Interrupt
    \/ InterruptInEvaluate
    \/ InterruptInSeedBuy

Spec == Init /\ [][Next]_vars

----------------------------------------------------------------------------
(* strategy_rsi() run once on a constructed bot, over every short series  *)
(* of closes and every small period                                       *)

InitRsi ==
    /\ Init
    /\ strategy = "rsi"

ReadCandles ==
    /\ pc = "init"
    /\ \E closes \in SeqsUpTo(Closes, MaxCloses), period \in 2..MaxPeriod :
          snapshot' = Candles(closes, period)
    /\ pc' = "strategy"
    /\ UNCHANGED <<config, usdt_balance, btc_balance, operations, fileUsdt,
                   fileBtc, acctUsdt, acctBtc, orders, calls, stopCause, ticks>>

ApplyRsi ==
    /\ pc = "strategy"
    /\ \E io1 \in BOOLEAN, io2 \in BOOLEAN :
          Commit(strategy_rsi(Mem, snapshot.closes, snapshot.period, io1, io2))
    /\ pc' = "report"
    /\ UNCHANGED <<config, stopCause, ticks, snapshot>>

NextRsi == ReadCandles \/ ApplyRsi

SpecRsi == InitRsi /\ [][NextRsi]_vars

----------------------------------------------------------------------------
(* buy() and sell() called directly on a constructed bot, with any price  *)
(* and any index; here ticks counts the calls made                        *)

SellIndexes == (0 - 1)..2

DirectBuy ==
    /\ pc = "init"
    /\ ticks < MaxCalls
    /\ \E price \in Prices, ioOk \in BOOLEAN :
          Commit(buy([Mem EXCEPT !.calls = <<>>], price, ioOk))
    /\ ticks' = ticks + 1
    /\ UNCHANGED <<config, pc, stopCause, snapshot>>

DirectSell ==
    /\ pc = "init"
    /\ ticks < MaxCalls
    /\ \E operation_index \in SellIndexes, price \in Prices, ioOk \in BOOLEAN :
          Commit(sell([Mem EXCEPT !.calls = <<>>], operation_index, price, ioOk))
    /\ ticks' = ticks + 1
    /\ UNCHANGED <<config, pc, stopCause, snapshot>>

NextApi == DirectBuy \/ DirectSell

\* buy() and sell() never read self.strategy
InitApi == Init /\ strategy = "basic"

SpecApi == InitApi /\ [][NextApi]_vars

----------------------------------------------------------------------------
(* The simulated bot started on an empty queue, in a run where every read  *)
(* and write of fake_balances.json succeeds and no interrupt arrives: the  *)
(* same constructor, loop and strategies, with the outcome of each file    *)
(* access fixed to success                                                  *)

InitSim == Init /\ simulated /\ operations = <<>>

SimInitializeOperations ==
    /\ pc = "init"
    /\ \E current \in Prices :
          Commit(IF operations = <<>> /\ current > 0
                 THEN buy(Mem, current, TRUE) ELSE Mem)
    /\ pc' = "fetch"
    /\ UNCHANGED <<config, stopCause, ticks, snapshot>>

SimFetchBalances ==
    /\ pc = "fetch"
    /\ ticks < MaxSimTicks
    /\ usdt_balance' = fileUsdt
    /\ btc_balance' = fileBtc
    /\ orders' = 0
    /\ calls' = <<>>
    /\ pc' = "strategy"
    /\ UNCHANGED <<config, operations, fileUsdt, fileBtc, acctUsdt, acctBtc,
                   stopCause, ticks, snapshot>>

SimRunBasic ==
    /\ pc = "strategy"
    /\ strategy \notin {"breakout", "sma", "rsi", "dca"}
    /\ \E current_price \in Prices :
          /\ Commit(evaluate_operations(Mem, current_price, TRUE))
          /\ snapshot' = Quote(current_price)
    /\ pc' = "report"
    /\ UNCHANGED <<config, stopCause, ticks>>

SimRunBreakout ==
    /\ pc = "strategy"
    /\ strategy = "breakout"
    /\ \E closes \in get_candles(BreakoutLimit) :
          /\ Commit(strategy_breakout(Mem, closes, TRUE, TRUE))
          /\ snapshot' = Candles(closes, 0)
    /\ pc' = "report"
    /\ UNCHANGED <<config, stopCause, ticks>>

SimRunSma ==
    /\ pc = "strategy"
    /\ strategy = "sma"
    /\ \E closes \in get_candles(SmaPeriod + 1) :
          /\ Commit(strategy_sma(Mem, closes, SmaPeriod, TRUE, TRUE))
          /\ snapshot' = Candles(closes, SmaPeriod)
    /\ pc' = "report"
    /\ UNCHANGED <<config, stopCause, ticks>>

SimRunRsi ==
    /\ pc = "strategy"
    /\ strategy = "rsi"
    /\ \E closes \in get_candles(RsiPeriod + RsiExtra) :
          /\ Commit(strategy_rsi(Mem, closes, RsiPeriod, TRUE, TRUE))
          /\ snapshot' = Candles(closes, RsiPeriod)
    /\ pc' = "report"
    /\ UNCHANGED <<config, stopCause, ticks>>

SimRunDca ==
    /\ pc = "strategy"
    /\ strategy = "dca"
    /\ \E current_price \in Prices :
          /\ Commit(strategy_dca(Mem, current_price, TRUE, TRUE))
          /\ snapshot' = Quote(current_price)
    /\ pc' = "report"
    /\ UNCHANGED <<config, stopCause, ticks>>

SimReport ==
    /\ pc = "report"
    /\ pc' = "seed"
    /\ snapshot' = NoSnapshot
    /\ UNCHANGED <<config, usdt_balance, btc_balance, operations, fileUsdt,
                   fileBtc, acctUsdt, acctBtc, orders, calls, stopCause, ticks>>

SimSeedBuy ==
    /\ pc = "seed"
    /\ \E price \in Prices :
          Commit(IF Len(operations) = 0 /\ strategy \in {"basic", "dca"}
                 THEN buy(Mem, price, TRUE) ELSE Mem)
    /\ pc' = "sleep"
    /\ UNCHANGED <<config, stopCause, ticks, snapshot>>

NextSim ==
    \/ SimInitializeOperations
    \/ SimFetchBalances
    \/ SimRunBasic
    \/ SimRunBreakout
    \/ SimRunSma
    \/ SimRunRsi
    \/ SimRunDca
    \/ SimReport
    \/ SimSeedBuy
    \/ Sleep

SpecSim == InitSim /\ [][NextSim]_vars

----------------------------------------------------------------------------
(* Claims *)

\* C1: after any sequence of ticks, buy() calls and sell() calls, the
\* in-memory fiat balance and crypto balance are both >= 0.
C1_BalancesNonNegative == usdt_balance >= 0 /\ btc_balance >= 0


\* C2: with budgetLimit > 0, a buy that would leave fiatBalance - cost below
\* budgetLimit is rejected with balances and queue unchanged, a buy that
\* leaves at least budgetLimit (and is covered by fiatBalance) is accepted,
\* and after every successful buy fiatBalance >= budgetLimit.  (Acceptance is
\* stated for simulated mode, where no exchange can refuse the order.)
C2_BudgetFloorEnforced ==
    \A k \in 1..Len(calls) :
        LET c == calls[k]
            cost == c.price * trade_amount_btc
        IN  (c.op = "buy" /\ budget_limit > 0) =>
               /\ (c.before.usdt - cost < budget_limit) =>
                     (~c.placed /\ c.after = c.before)
               /\ (simulated /\ c.before.usdt >= cost
                             /\ c.before.usdt - cost >= budget_limit) => c.placed
               /\ c.placed => c.after.usdt >= budget_limit

\* C3: with budgetLimit = 0 every buy at a price p > 0 that fiatBalance
\* covers succeeds and opens a new position.  (Stated for simulated mode,
\* where no exchange can refuse the order.)
C3_NoLimitNeverBlocks ==
    \A k \in 1..Len(calls) :
        LET c == calls[k] IN
        (/\ c.op = "buy" /\ budget_limit = 0 /\ simulated
         /\ c.price > 0 /\ c.before.usdt >= c.price * trade_amount_btc) =>
            (c.placed /\ Len(c.after.ops) = Len(c.before.ops) + 1)

\* the in-memory effect C4 states for a successful buy at price p
BuyApplied(c) ==
    /\ c.after.usdt = c.before.usdt - c.price * trade_amount_btc
    /\ c.after.btc = c.before.btc + trade_amount_btc
    /\ Len(c.after.ops) = Len(c.before.ops) + 1
    /\ SubSeq(c.after.ops, 1, Len(c.before.ops)) = c.before.ops
    /\ c.after.ops[Len(c.after.ops)].price = c.price
    /\ c.after.ops[Len(c.after.ops)].amount = trade_amount_btc

\* C4: every successful buy at price p, in simulated and in real mode,
\* decrements the in-memory fiat balance by p * tradeAmount, increments the
\* in-memory crypto balance by tradeAmount and appends one position
\* (entryPrice p, amount tradeAmount) at the tail; a buy that does not
\* succeed changes none of them.
C4_BuyEffect ==
    \A k \in 1..Len(calls) :
        LET c == calls[k] IN
        c.op = "buy" => IF c.placed THEN BuyApplied(c) ELSE c.after = c.before

\* the in-memory effect C5 states for a successful sell of index i at price p
SellApplied(c) ==
    LET amount == c.before.ops[c.index + 1].amount IN
    /\ c.after.btc = c.before.btc - amount
    /\ c.after.usdt = c.before.usdt + c.price * amount
    /\ c.after.ops = RemoveAt(c.before.ops, c.index)

\* C5: every successful sell of the position at index i at price p, in
\* simulated and in real mode, decrements the in-memory crypto balance by the
\* position's amount, increments the in-memory fiat balance by p * amount and
\* removes that position; a sell that does not succeed changes none of them.
C5_SellEffect ==
    \A k \in 1..Len(calls) :
        LET c == calls[k] IN
        c.op = "sell" => IF c.placed THEN SellApplied(c) ELSE c.after = c.before


\* the elements of a queue
Range(q) == {q[i] : i \in 1..Len(q)}

\* C6: every position created by buy() has
\* targetPrice = entryPrice * (1 + profitThreshold) exactly at creation (first
\* conjunct, in Scale units), and keeps it while it stays in the queue: every
\* position of the queue after a step was in the queue before the step with
\* the same fields, or is one that a buy() of the step created with its exact
\* target (second conjunct).
C6_TargetExactAndKept ==
    /\ [](\A k \in 1..Len(calls) :
            LET c == calls[k] IN
            (c.op = "buy" /\ c.placed) =>
               LET made == c.after.ops[Len(c.after.ops)] IN
               /\ made.price = c.price
               /\ made.target = c.price * Scale + c.price * profit_threshold)
    /\ [][\A i \in 1..Len(operations') :
            \/ operations'[i] \in Range(operations)
            \/ \E k \in 1..Len(calls') :
                  /\ calls'[k].op = "buy" /\ calls'[k].placed
                  /\ operations'[i].price = calls'[k].price
                  /\ operations'[i].target =
                        calls'[k].price * Scale + calls'[k].price * profit_threshold
          ]_vars

\* C6 witness: a position that only buy() can have created (no loaded
\* position has price 11) is still in the queue, with its exact target
\* 11 * 1.005, in a later tick in which nothing has been traded yet.
C6_Witness ==
    /\ ticks >= 1
    /\ pc = "strategy"
    /\ calls = <<>>
    /\ \E i \in 1..Len(operations) :
          operations[i].price = 11 /\ operations[i].target = 11055

\* C7: in the Basic variant with a non-zero price, if any open position has
\* targetPrice <= currentPrice the tick sells the oldest such position, even
\* when an older position meets the drop test; a buy on drop is decided only
\* when no position qualifies for a sell.
C7_SellBeforeBuy ==
    (pc = "report" /\ strategy = "basic" /\ calls # <<>>) =>
        LET c == calls[1]
            q == c.before.ops
            sellable == {i \in 1..Len(q) : SellHit(q[i], c.price)}
        IN  sellable # {} =>
               /\ c.op = "sell"
               /\ c.index + 1 \in sellable
               /\ \A j \in sellable : c.index + 1 <= j

\* C8: in the Basic variant at most one trade is executed in a tick: between
\* two inter-tick waits no more than one order is placed, and the length of
\* the queue at a wait differs by at most one from its length at the start
\* of the tick.
C8_OneTradePerTick ==
    (strategy = "basic" /\ pc \in {"strategy", "report", "seed", "sleep"}) =>
        /\ orders <= 1
        /\ calls # <<>> =>
               LET d == Len(operations) - Len(calls[1].before.ops)
               IN  0 - 1 <= d /\ d <= 1

\* C9: no trade is executed at a zero or unavailable price: a buy() or
\* sell() called with price 0 leaves balances and queue unchanged, and no
\* position with entryPrice = 0 is ever in the queue.
C9_NoTradeAtZeroPrice ==
    /\ \A i \in 1..Len(operations) : operations[i].price > 0
    /\ \A k \in 1..Len(calls) :
          calls[k].price = 0 => (~calls[k].placed /\ calls[k].after = calls[k].before)

\* C10: an error raised during a tick does not stop the loop: the loop is
\* never ended by the handler of unexpected errors.
C10_ErrorKeepsLoopRunning == ~(pc = "stopped" /\ stopCause = "error")


\* C11: a cancellation signal takes the loop to Stopped only after the
\* current tick has completed: in the Stopped state there is no half-applied
\* trade, i.e. every buy() or sell() of the tick has either placed its order
\* and updated the queue, or left balances and queue as they were.
C11_StoppedBetweenTrades ==
    (pc = "stopped" /\ stopCause = "interrupt") =>
        \A k \in 1..Len(calls) :
            calls[k].placed \/ calls[k].after = calls[k].before


\* C12: in real mode, when the exchange rejects or fails the market order of
\* buy() or sell(), the in-memory balances and the queue after the call are
\* those before the call, and no order counts as placed.
C12_RejectedOrderChangesNothing ==
    \A k \in 1..Len(calls) :
        (~simulated /\ ~calls[k].ioOk) =>
            (~calls[k].placed /\ calls[k].after = calls[k].before)

\* C12 witness: in real mode a sell() of an existing position that the
\* balance covers was sent to the exchange, and the exchange failed it.
C12_Witness ==
    \E k \in 1..Len(calls) :
        LET c == calls[k] IN
        /\ ~simulated /\ c.op = "sell" /\ ~c.ioOk
        /\ c.index >= 0 /\ c.index < Len(c.before.ops)
        /\ c.before.btc >= c.before.ops[c.index + 1].amount

\* the decisions C13 calls rejected
InsufficientFunds(c) ==
    c.op = "buy" /\ c.before.usdt < c.price * trade_amount_btc

IndexOutOfRange(c) ==
    c.op = "sell" /\ (c.index < 0 \/ c.index >= Len(c.before.ops))

InsufficientHoldings(c) ==
    /\ c.op = "sell" /\ c.index >= 0 /\ c.index < Len(c.before.ops)
    /\ c.before.ops[c.index + 1].amount > c.before.btc

\* C13: a rejected decision changes no state: a buy with
\* fiatBalance < price * tradeAmount, a sell whose position amount exceeds
\* cryptoBalance and a sell with an index outside [0, len) leave balances,
\* queue, balance file and exchange account as they were, place no order and
\* do not stop the bot.
C13_RejectedDecisionChangesNothing ==
    [][\A k \in 1..Len(calls') :
          (InsufficientFunds(calls'[k]) \/ IndexOutOfRange(calls'[k])
                                         \/ InsufficientHoldings(calls'[k])) =>
             /\ ~calls'[k].placed
             /\ calls'[k].after = calls'[k].before
             /\ UNCHANGED <<usdt_balance, btc_balance, operations, fileUsdt,
                            fileBtc, acctUsdt, acctBtc, orders, pc, stopCause>>
      ]_vars

\* C13 witness: a sell() with the index just past the end of a non-empty
\* queue, by a bot that holds crypto, was rejected.
C13_Witness ==
    /\ calls # <<>>
    /\ IndexOutOfRange(calls[1])
    /\ calls[1].index = Len(calls[1].before.ops)
    /\ calls[1].before.ops # <<>>
    /\ calls[1].before.btc > 0
    /\ ticks >= 2


\* C14: a run configured with an unknown strategy behaves exactly like a run
\* configured with basic, including the buy that basic makes when the queue
\* is empty: where the loop reaches its seed step with an empty queue, the
\* unknown-strategy run calls buy() there, as the basic run does.
C14_UnknownSeedsLikeBasic ==
    [][(/\ pc = "seed" /\ pc' = "sleep"
        /\ strategy \notin {"basic", "breakout", "sma", "rsi", "dca"}
        /\ Len(operations) = 0)
          => (/\ Len(calls') = Len(calls) + 1
              /\ calls'[Len(calls')].op = "buy")]_vars

\* C15: in simulated mode, when persisting the balances failed after a
\* successful buy or sell, the in-memory balances remain authoritative: the
\* balances the next tick decides with, taken after its reading of the
\* balance file, are the in-memory balances that reflect the trade.
C15_MemoryStaysAuthoritative ==
    [][(/\ simulated
        /\ pc = "fetch" /\ pc' = "strategy"
        /\ \E k \in 1..Len(calls) : calls[k].placed /\ ~calls[k].ioOk
        /\ usdt_balance' = fileUsdt /\ btc_balance' = fileBtc)
          => (usdt_balance' = usdt_balance /\ btc_balance' = btc_balance)]_vars


\* the queue the current tick started with: the queue changes only in buy()
\* and sell(), whose calls the tick records
TickStartOps == IF calls = <<>> THEN operations ELSE calls[1].before.ops

\* C16: with an empty position queue no sell is executed in any strategy
\* variant, whatever the price or candle sequence: in a tick that starts with
\* an empty queue sell() is not called, so no sell order reaches the exchange,
\* and no call credits fiat.
C16_EmptyQueueNeverSells ==
    (pc \in {"report", "seed", "sleep"} /\ TickStartOps = <<>>) =>
        \A k \in 1..Len(calls) :
            /\ calls[k].op # "sell"
            /\ calls[k].after.usdt <= calls[k].before.usdt

\* C16 witness: a breakout tick that started with an empty queue has read
\* candles whose last close is below every preceding close.
C16_Witness ==
    /\ strategy = "breakout" /\ pc = "report"
    /\ TickStartOps = <<>>
    /\ Len(snapshot.closes) >= 2
    /\ snapshot.closes[Len(snapshot.closes)] < MinOf(AllButLast(snapshot.closes))


\* C17: the position queue changes only by appending one position at the
\* tail (buy) or by removing exactly the position at the given index (sell):
\* after a removal at index i the queue is one shorter, the positions before
\* i are where they were and those after i have moved up by one, each with
\* its field values; no step modifies a position that stays in the queue.
C17_QueueAppendOrRemoveOnly ==
    [][\/ operations' = operations
       \/ /\ calls'[Len(calls')].op = "buy"
          /\ Len(operations') = Len(operations) + 1
          /\ SubSeq(operations', 1, Len(operations)) = operations
       \/ /\ calls'[Len(calls')].op = "sell"
          /\ calls'[Len(calls')].index \in 0..(Len(operations) - 1)
          /\ Len(operations') = Len(operations) - 1
          /\ \A j \in 1..Len(operations') :
                operations'[j] = (IF j <= calls'[Len(calls')].index
                                  THEN operations[j] ELSE operations[j + 1])
      ]_vars

\* C17 witness: sell() has removed the middle one of three different
\* positions.
C17_Witness ==
    /\ calls # <<>>
    /\ calls[1].op = "sell" /\ calls[1].placed /\ calls[1].index = 1
    /\ Len(calls[1].before.ops) = 3
    /\ calls[1].before.ops[1] # calls[1].before.ops[2]
    /\ calls[1].before.ops[2] # calls[1].before.ops[3]
    /\ calls[1].before.ops[1] # calls[1].before.ops[3]
    /\ operations = <<calls[1].before.ops[1], calls[1].before.ops[3]>>


\* a DCA tick on a non-empty queue at a non-zero price: buy() is called iff
\* the price is at or below lastEntry * (1 - drop_threshold), sell() iff it is
\* at or above lastEntry * (1 + profit_threshold), and the sell takes index 0
DcaTriggersOnLastEntry ==
    (/\ strategy = "dca" /\ pc = "report"
     /\ snapshot.price # 0 /\ TickStartOps # <<>>) =>
        LET lastEntry == TickStartOps[Len(TickStartOps)].price
        IN  /\ (\E k \in 1..Len(calls) : calls[k].op = "buy")
                  <=> (snapshot.price * Scale <= lastEntry * (Scale - drop_threshold))
            /\ (\E k \in 1..Len(calls) : calls[k].op = "sell")
                  <=> (snapshot.price * Scale >= lastEntry * (Scale + profit_threshold))
            /\ \A k \in 1..Len(calls) :
                  /\ calls[k].price = snapshot.price
                  /\ calls[k].op = "sell" => calls[k].index = 0
                  /\ (calls[k].op = "sell" /\ calls[k].placed) =>
                        calls[k].after.ops = Tail(calls[k].before.ops)

\* a DCA tick that started with an empty queue has called buy() once and
\* sell() never
DcaSeedsOnce ==
    (strategy = "dca" /\ pc = "sleep" /\ TickStartOps = <<>>) =>
        (Len(calls) = 1 /\ calls[1].op = "buy")

\* C18: in the DCA variant with a non-empty queue and a non-zero price both
\* triggers are compared with the entry price of the most recently opened
\* position, the sell always removes the position at index 0, and with an
\* empty queue the tick attempts exactly one seed buy and no sell.
C18_DcaLastEntryAndOneSeed == DcaTriggersOnLastEntry /\ DcaSeedsOnce


\* C19: in the breakout variant, with C the most recent close and the
\* preceding closes non-empty, a buy at C is attempted iff C is above every
\* preceding close, a sell of index 0 at C is attempted iff C is below every
\* preceding close and the queue is non-empty, the two never both fire in one
\* tick, and with fewer than 2 closes nothing is traded.
C19_BreakoutTriggers ==
    (strategy = "breakout" /\ pc = "report") =>
        LET closes == snapshot.closes
            n == Len(closes)
            buys == {k \in 1..Len(calls) : calls[k].op = "buy"}
            sells == {k \in 1..Len(calls) : calls[k].op = "sell"}
        IN  IF n < 2 THEN calls = <<>>
            ELSE /\ (buys # {}) <=> (\A i \in 1..(n - 1) : closes[n] > closes[i])
                 /\ (sells # {}) <=> (/\ \A i \in 1..(n - 1) : closes[n] < closes[i]
                                      /\ TickStartOps # <<>>)
                 /\ ~(buys # {} /\ sells # {})
                 /\ \A k \in 1..Len(calls) :
                       /\ calls[k].price = closes[n]
                       /\ calls[k].op = "sell" => calls[k].index = 0

\* C19 witness: a breakout tick over 21 closes whose last close is below all
\* the others has sold the position at index 0.
C19_Witness ==
    /\ strategy = "breakout" /\ pc = "report"
    /\ Len(snapshot.closes) = BreakoutLimit
    /\ \E k \in 1..Len(calls) :
          calls[k].op = "sell" /\ calls[k].placed /\ calls[k].index = 0


\* the rises and the falls of the last period steps of a series, oldest first
Rises(closes, period) ==
    [i \in 1..period |->
        LET d == closes[Len(closes) - period + i] - closes[Len(closes) - period + i - 1]
        IN  IF d > 0 THEN d ELSE 0]

Falls(closes, period) ==
    [i \in 1..period |->
        LET d == closes[Len(closes) - period + i - 1] - closes[Len(closes) - period + i]
        IN  IF d > 0 THEN d ELSE 0]

\* C20: for every series of at least period + 1 non-negative closes
\* calculate_rsi returns a value r with 0 <= r <= 100, equal to 100 when the
\* losses over the trailing period sum to 0 and to
\* 100 * gains / (gains + losses) otherwise; with fewer than period + 1 closes
\* it returns no value and the RSI variant trades nothing.
C20_RsiValue ==
    (pc = "report") =>
        LET closes == snapshot.closes
            period == snapshot.period
            r == RsiTable[<<closes, period>>]
        IN  IF Len(closes) < period + 1
            THEN r.none /\ calls = <<>>
            ELSE LET gains == SumOf(Rises(closes, period))
                     losses == SumOf(Falls(closes, period))
                 IN  /\ ~r.none
                     /\ ~DecLess[DecOf[100], r.value]
                     /\ losses = 0 => DecEq[r.value, DecOf[100]]
                     /\ losses # 0 =>
                           DecEq[r.value, DecDiv[DecOf[100 * gains],
                                                 DecOf[gains + losses]]]

\* C20 witness: strategy_rsi() has run on a series with both rises and falls
\* in its trailing period and has traded on the value.
C20_Witness ==
    /\ pc = "report"
    /\ Len(snapshot.closes) >= snapshot.period + 1
    /\ SumOf(Rises(snapshot.closes, snapshot.period)) > 0
    /\ SumOf(Falls(snapshot.closes, snapshot.period)) > 0
    /\ calls # <<>>

\* the amounts of the open positions, oldest first
Amounts(q) == [i \in DOMAIN q |-> q[i].amount]

\* C21: in simulated mode, started on an empty queue and with no persistence
\* failure, after any sequence of ticks btc_balance equals the value it was
\* loaded with plus the sum of the amounts of the positions in the queue, and
\* so no open position has an amount above btc_balance.
C21_LedgerAndQueueInStep ==
    \A initial \in InitCrypto :
        (btc_balance = initial) =>
            [](/\ btc_balance = initial + SumOf(Amounts(operations))
               /\ \A i \in DOMAIN operations :
                     operations[i].amount <= btc_balance)

\* C21 witness: in a later tick, after the balances have been re-read from
\* the file, the strategy has sold one position while another stays open.
C21_Witness ==
    /\ pc = "report"
    /\ ticks >= 1
    /\ operations # <<>>
    /\ \E k \in DOMAIN calls : calls[k].op = "sell" /\ calls[k].placed

====
